---- MODULE Spec2Model ----
(***************************************************************************)
(* LedgerHistory (src/ripple/app/ledger/LedgerHistory.cpp): the ledger     *)
(* cache keyed by hash, the sequence -> hash index, and the built /        *)
(* validated consensus tracker with its mismatch analyzer.                 *)
(*                                                                         *)
(* A ledger is content-hashed: its hash determines its sequence.  Several  *)
(* Ledger objects (instances) may exist for one hash; an object is the     *)
(* pair <<hash, copy>>, and a new object takes the smallest copy number no  *)
(* holder of an object of that hash refers to.                             *)
(***************************************************************************)
EXTENDS Integers, Sequences, FiniteSets, TLC

\* ---------------------------------------------------------------- bounds
NumHashes == 3      \* distinct non-zero ledger hashes in the universe
MaxCalls == 2       \* handleMismatch invocations counted
NumThreads == 2     \* concurrent callers
NumCHash == 1       \* distinct consensus-set hashes
MaxField == 1       \* values 0..MaxField of a TxMeta result, index, node list
MaxLenBits == 28    \* payload lengths up to 2^MaxLenBits + 1 bytes
MaxType == 55       \* message types 1..MaxType
NumKeys == 3        \* transaction keys
NumSlices == 2      \* distinct serialized items of one transaction
NumVariants == 2    \* distinct parent hashes, distinct close times

\* ------------------------------------------------------------- universe
None == 0                       \* empty optional / null pointer / zero hash
Hashes == 1..NumHashes          \* ledger->info().hash, non-zero
CHashes == 1..NumCHash          \* consensus transaction set hashes
SeqOf(h) == (h + 1) \div 2      \* ledger->info().seq of the ledger hashed h
Seqs == 1..SeqOf(NumHashes)     \* LedgerIndex values
Null == <<None, None>>          \* std::shared_ptr<Ledger const>{}
Json == 1                       \* the opaque Json::Value consensus
ZeroHash == NumHashes + 1       \* uint256{} passed as a LedgerHash argument and
                                \* kept as the value of an index entry (None
                                \* in the index means: no entry)

VARIABLES
    ledgerCache,          \* ledgerCache_: hash -> copy of the cached object, None if absent
    mLedgersByIndex,      \* mLedgersByIndex: seq -> hash, None if no entry
    consensusValidated,   \* consensusValidated_: seq -> cv_entry
    mismatch_counter,     \* mismatch_counter_
    ghost,                \* per tracker entry: history of the entry since its creation
    lastOp,               \* the operation just completed, its arguments and result
    threads               \* concurrent callers: program counter and locals

vars == <<ledgerCache, mLedgersByIndex, consensusValidated,
          mismatch_counter, ghost, lastOp, threads>>

\* ------------------------------------------------- TaggedCache (by hash)
\* TaggedCache::fetch: the cached object or null
fetch(cache, hash) ==
    IF hash \notin Hashes \/ cache[hash] = None THEN Null ELSE <<hash, cache[hash]>>

\* TaggedCache::insert_or_assign: the cached object is replaced by data
insert_or_assign(cache, hash, data) == [cache EXCEPT ![hash] = data[2]]

\* TaggedCache::retrieve_or_insert: keeps the cached object when there is one
retrieve_or_insert(cache, hash, data) ==
    IF cache[hash] = None THEN [cache EXCEPT ![hash] = data[2]] ELSE cache

\* TaggedCache::retrieve_or_insert: the caller's pointer afterwards
canonical(cache, hash, data) ==
    IF cache[hash] = None THEN data ELSE <<hash, cache[hash]>>

\* mutant: the threshold itself is erased too
PriorTo_Inclusive(seq, hash) == SeqOf(hash) <= seq

\* the predicate of clearLedgerCachePrior: ledger.info().seq < seq
PriorTo(seq, hash) == SeqOf(hash) < seq

\* TaggedCache::erase_if with that predicate
erase_if(cache, seq) ==
    [h \in Hashes |-> IF cache[h] # None /\ PriorTo(seq, h) THEN None ELSE cache[h]]

\* ------------------------------------------------------- external loader
\* the copies of objects of this hash that callers refer to
HeldByCallers(hash) ==
    {o[2] : o \in {x \in {lastOp.retO, lastOp.prevO, <<lastOp.hash, lastOp.copy>>}
                        \cup {threads[t].obj : t \in DOMAIN threads}
                        \cup {threads[t].mine : t \in DOMAIN threads} :
                    x[1] = hash}}

InUse(cache, hash) == {cache[hash]} \cup HeldByCallers(hash)

\* the copy number of a new object
Fresh(cache, hash) ==
    CHOOSE k \in 1..(Cardinality(InUse(cache, hash)) + 1) :
        /\ k \notin InUse(cache, hash)
        /\ \A j \in 1..(k - 1) : j \in InUse(cache, hash)

\* The durable store is written and pruned by other components: whether it
\* holds a ledger is an input of each call of the loader (stored).

\* loadByHash: a new Ledger object when the store holds the hash
loadByHash(cache, hash, stored) ==
    IF stored /\ hash \in Hashes THEN <<hash, Fresh(cache, hash)>> ELSE Null

\* loadByIndex: null, or a new Ledger object for a stored ledger of that sequence
loadByIndexChoices(cache, index) ==
    {Null} \cup {<<h, Fresh(cache, h)>> : h \in {x \in Hashes : SeqOf(x) = index}}

\* ------------------------------------------------------ getLedgerByHash
\* mutant: the loaded ledger replaces the cached one
CacheLoaded_Assign(cache, ret) == insert_or_assign(cache, ret[1], ret)

\* ledgerCache_.retrieve_or_insert(ret->info().hash, ret): the cache afterwards
CacheLoaded(cache, ret) == retrieve_or_insert(cache, ret[1], ret)

\* ledgerCache_.retrieve_or_insert(ret->info().hash, ret): ret afterwards
Canonical(cache, ret) == canonical(cache, ret[1], ret)

\* mutant: a loaded ledger is returned without being put into the cache
getLedgerByHash_NotCached(cache, hash, stored) ==
    LET hit == fetch(cache, hash)
        loaded == loadByHash(cache, hash, stored)
    IN  IF hit # Null
        THEN [ret |-> hit, cache |-> cache, loaded |-> FALSE]
        ELSE IF loaded = Null
        THEN [ret |-> Null, cache |-> cache, loaded |-> FALSE]
        ELSE [ret |-> loaded, cache |-> cache, loaded |-> TRUE]

\* the result: [ret, cache, loaded], loaded telling that the loader found it
getLedgerByHash(cache, hash, stored) ==
    LET hit == fetch(cache, hash)
        loaded == loadByHash(cache, hash, stored)
    IN  IF hit # Null
        THEN [ret |-> hit, cache |-> cache, loaded |-> FALSE]
        ELSE IF loaded = Null
        THEN [ret |-> Null, cache |-> cache, loaded |-> FALSE]
        ELSE [ret |-> Canonical(cache, loaded),
              cache |-> CacheLoaded(cache, loaded),
              loaded |-> TRUE]

\* ------------------------------------------------------------ lastOp
NoOp == [op |-> "none", hash |-> None, copy |-> None, seq |-> None,
         flag |-> FALSE, threw |-> FALSE, retB |-> FALSE, retO |-> Null,
         follows |-> "none", prevO |-> Null, args |-> <<>>, log |-> <<>>]

Op(name, hash, copy, seq, flag, threw, retB, retO) ==
    [op |-> name, hash |-> hash, copy |-> copy, seq |-> seq,
     flag |-> flag, threw |-> threw, retB |-> retB, retO |-> retO,
     follows |-> "none", prevO |-> Null, args |-> <<>>, log |-> <<>>]

\* getLedgerBySeq(index) called right after insert(ledger, true) returned for a
\* ledger of that sequence: the record keeps the inserted object
AfterInsert(op, index) ==
    IF lastOp.op = "insert" /\ ~lastOp.threw /\ lastOp.flag /\ lastOp.seq = index
    THEN [op EXCEPT !.follows = "insert", !.prevO = <<lastOp.hash, lastOp.copy>>]
    ELSE op

\* getLedgerByHash(hash) called right after getLedgerByHash(hash) returned: the
\* record keeps what the first call returned and whether it had loaded it
AfterByHash(op, hash) ==
    IF lastOp.op = "getLedgerByHash" /\ lastOp.hash = hash
    THEN [op EXCEPT !.follows = "getLedgerByHash", !.prevO = lastOp.retO,
                    !.retB = lastOp.flag]
    ELSE op

\* --------------------------------------------------------------- insert
\* alreadyHad, as insert_or_assign reports it
InsertAlreadyHad(cache, hash) == cache[hash] # None

\* mutant: an object already cached is kept
InsertCache_KeepsOld(cache, ledger) == retrieve_or_insert(cache, ledger[1], ledger)

\* the cache after insert
InsertCache(cache, ledger) == insert_or_assign(cache, ledger[1], ledger)

\* mutant: the index is not written
InsertIndex_Never(idx, hash, validated) == idx

\* mLedgersByIndex after insert
InsertIndex(idx, hash, validated) ==
    IF validated THEN [idx EXCEPT ![SeqOf(hash)] = hash] ELSE idx

\* insert(ledger, validated): ledger is an object the caller holds or has just built
Insert(ledger, immutable, validated) ==
    LET hash == ledger[1]
        copy == ledger[2]
    IN  /\ ~immutable => copy = Fresh(ledgerCache, hash)
        /\ IF ~immutable
           THEN \* LogicError("mutable Ledger in insert")
                /\ lastOp' = Op("insert", hash, copy, SeqOf(hash), validated,
                                TRUE, FALSE, Null)
                /\ UNCHANGED <<ledgerCache, mLedgersByIndex>>
           ELSE /\ ledgerCache' = InsertCache(ledgerCache, ledger)
                /\ mLedgersByIndex' = InsertIndex(mLedgersByIndex, hash, validated)
                /\ lastOp' = Op("insert", hash, copy, SeqOf(hash), validated, FALSE,
                                InsertAlreadyHad(ledgerCache, hash), Null)
        /\ UNCHANGED <<consensusValidated, mismatch_counter, ghost,
                       threads>>

\* -------------------------------------------------------- getLedgerHash
GetLedgerHash(index) ==
    /\ lastOp' = Op("getLedgerHash", mLedgersByIndex[index], None, index,
                    FALSE, FALSE, FALSE, Null)
    /\ UNCHANGED <<ledgerCache, mLedgersByIndex, consensusValidated,
                   mismatch_counter, ghost, threads>>

\* ------------------------------------------- getLedgerByHash (action)
GetLedgerByHash(hash, stored) ==
    LET r == getLedgerByHash(ledgerCache, hash, stored)
    IN  /\ ledgerCache' = r.cache
        /\ lastOp' = AfterByHash(Op("getLedgerByHash", hash, None, None, r.loaded,
                                    FALSE, FALSE, r.ret), hash)
        /\ UNCHANGED <<mLedgersByIndex, consensusValidated, mismatch_counter,
                       ghost, threads>>

\* ------------------------------------------------------- getLedgerBySeq
\* the index after a ledger was loaded by sequence
LoadedIndex(idx, ret) == [idx EXCEPT ![SeqOf(ret[1])] = ret[1]]

\* the value returned after a load by sequence
LoadedResult(ret, index) == IF SeqOf(ret[1]) = index THEN ret ELSE Null

GetLedgerBySeq(index, stored) ==
    IF mLedgersByIndex[index] # None
    THEN LET r == getLedgerByHash(ledgerCache, mLedgersByIndex[index], stored)
         IN  /\ ledgerCache' = r.cache
             /\ lastOp' = AfterInsert(Op("getLedgerBySeq", None, None, index,
                                         FALSE, FALSE, FALSE, r.ret), index)
             /\ UNCHANGED <<mLedgersByIndex, consensusValidated,
                            mismatch_counter, ghost, threads>>
    ELSE \E loaded \in loadByIndexChoices(ledgerCache, index) :
           IF loaded = Null
           THEN /\ lastOp' = AfterInsert(Op("getLedgerBySeq", None, None, index,
                                            FALSE, FALSE, FALSE, Null), index)
                /\ UNCHANGED <<ledgerCache, mLedgersByIndex,
                               consensusValidated, mismatch_counter, ghost,
                               threads>>
           ELSE LET ret == Canonical(ledgerCache, loaded)
                IN  /\ ledgerCache' = CacheLoaded(ledgerCache, loaded)
                    /\ mLedgersByIndex' = LoadedIndex(mLedgersByIndex, ret)
                    /\ lastOp' = AfterInsert(
                          Op("getLedgerBySeq", None, None, index, FALSE, FALSE,
                             FALSE, LoadedResult(ret, index)), index)
                    /\ UNCHANGED <<consensusValidated, mismatch_counter,
                                   ghost, threads>>

\* ------------------------------------------------------------- fixIndex
\* whether fixIndex finds an entry that differs
FixNeeded(idx, ledgerIndex, ledgerHash) ==
    idx[ledgerIndex] # None /\ idx[ledgerIndex] # ledgerHash

\* mutant: a missing entry is created
FixedIndex_Creates(idx, ledgerIndex, ledgerHash) ==
    IF idx[ledgerIndex] # ledgerHash
    THEN [idx EXCEPT ![ledgerIndex] = ledgerHash]
    ELSE idx

\* mLedgersByIndex after fixIndex
FixedIndex(idx, ledgerIndex, ledgerHash) ==
    IF FixNeeded(idx, ledgerIndex, ledgerHash)
    THEN [idx EXCEPT ![ledgerIndex] = ledgerHash]
    ELSE idx

FixIndex(ledgerIndex, ledgerHash) ==
    /\ mLedgersByIndex' = FixedIndex(mLedgersByIndex, ledgerIndex, ledgerHash)
    /\ lastOp' = Op("fixIndex", ledgerHash, None, ledgerIndex, FALSE, FALSE,
                    ~FixNeeded(mLedgersByIndex, ledgerIndex, ledgerHash), Null)
    /\ UNCHANGED <<ledgerCache, consensusValidated, mismatch_counter,
                   ghost, threads>>

\* ------------------------------------------------ clearLedgerCachePrior
\* mutant: the index entries below seq are dropped with the ledgers
ClearLedgerCachePrior_DropsIndex(seq) ==
    /\ ledgerCache' = erase_if(ledgerCache, seq)
    /\ mLedgersByIndex' = [s \in Seqs |-> IF s < seq THEN None ELSE mLedgersByIndex[s]]
    /\ lastOp' = Op("clearLedgerCachePrior", None, None, seq,
                    erase_if(ledgerCache, seq) # ledgerCache, FALSE, FALSE, Null)
    /\ UNCHANGED <<consensusValidated, mismatch_counter, ghost, threads>>

ClearLedgerCachePrior(seq) ==
    /\ ledgerCache' = erase_if(ledgerCache, seq)
    /\ lastOp' = Op("clearLedgerCachePrior", None, None, seq,
                    erase_if(ledgerCache, seq) # ledgerCache, FALSE, FALSE, Null)
    /\ UNCHANGED <<mLedgersByIndex, consensusValidated,
                   mismatch_counter, ghost, threads>>

\* ---------------------------------------------------------------- sweep
\* age / size eviction of one ledgerCache_ entry
SweepLedger(hash) ==
    /\ ledgerCache[hash] # None
    /\ ledgerCache' = [ledgerCache EXCEPT ![hash] = None]
    /\ lastOp' = Op("sweep", hash, None, None, FALSE, FALSE, FALSE, Null)
    /\ UNCHANGED <<mLedgersByIndex, consensusValidated,
                   mismatch_counter, ghost, threads>>

\* ------------------------------------------------------- tracker entries
\* cv_entry: every optional empty
NewEntry == [present |-> TRUE, built |-> None, builtConsensusHash |-> None,
             consensus |-> None, validated |-> None,
             validatedConsensusHash |-> None]

NoEntry == [NewEntry EXCEPT !.present = FALSE]

\* history of an entry: the first record calls made on it (at most two kept),
\* every fully populated <<built, validated>> pair it came to hold, the first
\* such pair, and the handleMismatch invocations made for it, in order
NewGhost == [ops |-> <<>>, held |-> {}, first |-> Null, diagnosed |-> <<>>]

\* consensusValidated_.retrieve_or_insert(index, entry): the shared entry
EntryOf(cv, index) == IF cv[index].present THEN cv[index] ELSE NewEntry

GhostOf(cv, gh, index) == IF cv[index].present THEN gh[index] ELSE NewGhost

IsFull(entry) == entry.built # None /\ entry.validated # None

\* the history once a record call of the given kind has got the entry
Started(g, kind) ==
    [g EXCEPT !.ops = IF Len(@) < 2 THEN Append(@, kind) ELSE @]

\* the history once a write has left the entry as `entry`
Written(g, entry) ==
    [g EXCEPT !.held = IF IsFull(entry)
                       THEN @ \cup {<<entry.built, entry.validated>>}
                       ELSE @,
              !.first = IF @ = Null /\ IsFull(entry)
                        THEN <<entry.built, entry.validated>>
                        ELSE @]

\* the history after a whole record call of the given kind left the entry as `entry`
GhostAfter(g, kind, entry, fired) ==
    [Written(Started(g, kind), entry) EXCEPT !.diagnosed = @ \o fired]

\* ------------------------------------------------------- handleMismatch
Call(built, valid, builtConsensusHash, validatedConsensusHash, consensus) ==
    [built |-> built, valid |-> valid, builtConsensusHash |-> builtConsensusHash,
     validatedConsensusHash |-> validatedConsensusHash, consensus |-> consensus]

\* mutant: the counter is incremented twice
Counted_Twice(counter) == counter + 2

\* the counter after one invocation
Counted(counter) == counter + 1

\* st = [cache, counter]: the state handleMismatch reads and writes
handleMismatch(st, call, storedBuilt, storedValid) ==
    LET b == getLedgerByHash(st.cache, call.built, storedBuilt)
        v == getLedgerByHash(b.cache, call.valid, storedValid)
    IN  [cache |-> v.cache, counter |-> Counted(st.counter)]

Here == [cache |-> ledgerCache, counter |-> mismatch_counter]

\* ---------------------------------------------------------- builtLedger
\* mutant: the test of the own side is left out
BuiltCheck_NoOwnTest(entry) == entry.validated # None

\* entry->validated && !entry->built
BuiltCheck(entry) == entry.validated # None /\ entry.built = None

\* entry->validated.value() != hash
BuiltDiffers(entry, hash) == entry.validated # hash

BuiltStore(entry, hash, consensusHash) ==
    [entry EXCEPT !.built = hash, !.builtConsensusHash = consensusHash,
                  !.consensus = Json]

BuiltLedger(hash, consensusHash, storedBuilt, storedValid) ==
    LET index == SeqOf(hash)
        entry == EntryOf(consensusValidated, index)
        g == GhostOf(consensusValidated, ghost, index)
        mismatch == BuiltCheck(entry) /\ BuiltDiffers(entry, hash)
        call == Call(hash, entry.validated, consensusHash,
                     entry.validatedConsensusHash, Json)
        after == IF mismatch
                 THEN handleMismatch(Here, call, storedBuilt, storedValid)
                 ELSE Here
        stored == BuiltStore(entry, hash, consensusHash)
    IN  /\ after.counter <= MaxCalls
        /\ mismatch \/ (~storedBuilt /\ ~storedValid)   \* the loader is not asked
        /\ ledgerCache' = after.cache
        /\ mismatch_counter' = after.counter
        /\ consensusValidated' = [consensusValidated EXCEPT ![index] = stored]
        /\ ghost' = [ghost EXCEPT ![index] =
                GhostAfter(g, "built", stored,
                    IF mismatch THEN <<call>> ELSE <<>>)]
        /\ UNCHANGED <<mLedgersByIndex, lastOp, threads>>

\* ------------------------------------------------------ validatedLedger
\* mutant: the test of the own side is inverted
ValidatedMismatch_OwnInverted(entry, hash) ==
    entry.built # None /\ entry.validated # None /\ entry.built # hash

\* mutant: the hashes are not compared
ValidatedMismatch_NoCompare(entry, hash) ==
    entry.built # None /\ entry.validated = None

\* entry->built && !entry->validated && entry->built.value() != hash
ValidatedMismatch(entry, hash) ==
    entry.built # None /\ entry.validated = None /\ entry.built # hash

ValidatedStore(entry, hash, consensusHash) ==
    [entry EXCEPT !.validated = hash, !.validatedConsensusHash = consensusHash]

ValidatedLedger(hash, consensusHash, storedBuilt, storedValid) ==
    LET index == SeqOf(hash)
        entry == EntryOf(consensusValidated, index)
        g == GhostOf(consensusValidated, ghost, index)
        mismatch == ValidatedMismatch(entry, hash)
        call == Call(entry.built, hash, entry.builtConsensusHash, consensusHash,
                     entry.consensus)
        after == IF mismatch
                 THEN handleMismatch(Here, call, storedBuilt, storedValid)
                 ELSE Here
        stored == ValidatedStore(entry, hash, consensusHash)
    IN  /\ after.counter <= MaxCalls
        /\ mismatch \/ (~storedBuilt /\ ~storedValid)   \* the loader is not asked
        /\ ledgerCache' = after.cache
        /\ mismatch_counter' = after.counter
        /\ consensusValidated' = [consensusValidated EXCEPT ![index] = stored]
        /\ ghost' = [ghost EXCEPT ![index] =
                GhostAfter(g, "validated", stored,
                    IF mismatch THEN <<call>> ELSE <<>>)]
        /\ UNCHANGED <<mLedgersByIndex, lastOp, threads>>

\* age / size eviction of one consensusValidated_ entry
SweepEntry(index) ==
    /\ consensusValidated[index].present
    /\ consensusValidated' = [consensusValidated EXCEPT ![index] = NoEntry]
    /\ ghost' = [ghost EXCEPT ![index] = NewGhost]
    /\ UNCHANGED <<ledgerCache, mLedgersByIndex, mismatch_counter,
                   lastOp, threads>>

\* --------------------------------------------------------------- Init
InitCommon ==
    /\ ledgerCache = [h \in Hashes |-> None]
    /\ mLedgersByIndex = [s \in Seqs |-> None]
    /\ consensusValidated = [s \in Seqs |-> NoEntry]
    /\ mismatch_counter = 0
    /\ ghost = [s \in Seqs |-> NewGhost]
    /\ lastOp = NoOp
    /\ threads = <<>>

Init == InitCommon

\* the ledger cache and the index, one caller at a time
Next ==
    \/ \E h \in Hashes, i \in BOOLEAN, v \in BOOLEAN :
         \E k \in (InUse(ledgerCache, h) \ {None}) \cup {Fresh(ledgerCache, h)} :
            Insert(<<h, k>>, i, v)
    \/ \E s \in Seqs : GetLedgerHash(s)
    \/ \E h \in Hashes, st \in BOOLEAN : GetLedgerByHash(h, st)
    \/ \E s \in Seqs, st \in BOOLEAN : GetLedgerBySeq(s, st)
    \/ \E s \in Seqs, h \in Hashes : FixIndex(s, h)
    \/ \E s \in 1..(SeqOf(NumHashes) + 1) : ClearLedgerCachePrior(s)
    \/ \E h \in Hashes : SweepLedger(h)

Spec == Init /\ [][Next]_vars

\* the same, with callers of fixIndex that pass the zero hash: fixIndex
\* takes any LedgerHash and tests nothing about it
NextZero ==
    \/ Next
    \/ \E s \in Seqs : FixIndex(s, ZeroHash)

SpecZero == Init /\ [][NextZero]_vars

\* the consensus tracker, one caller at a time
NextTracker ==
    \/ \E h \in Hashes, c \in CHashes, sb \in BOOLEAN, sv \in BOOLEAN :
         BuiltLedger(h, c, sb, sv)
    \/ \E h \in Hashes, c \in CHashes \cup {None}, sb \in BOOLEAN, sv \in BOOLEAN :
         ValidatedLedger(h, c, sb, sv)
    \/ \E s \in Seqs : SweepEntry(s)

SpecTracker == Init /\ [][NextTracker]_vars

\* =================================================================
\* builtLedger and validatedLedger called concurrently: no lock spans a
\* call, so each read and each write of the shared entry is a step of
\* its own.  A read of a field takes the value last written to it.
\* =================================================================
Threads == 1..NumThreads

Idle == [pc |-> "idle", kind |-> "none", hash |-> None, chash |-> None,
         found |-> 0, obj |-> Null, mine |-> Null, flag |-> FALSE]

Entry(t) == consensusValidated[SeqOf(threads[t].hash)]

Goto(t, pc) == threads' = [threads EXCEPT ![t].pc = pc]

\* lines 433-434 / 471-472: make_shared<cv_entry>() and retrieve_or_insert
RecordGet(t, kind, hash, chash, pc) ==
    LET index == SeqOf(hash)
    IN  /\ threads[t].pc = "idle"
        /\ consensusValidated' =
              [consensusValidated EXCEPT ![index] = EntryOf(consensusValidated, index)]
        /\ ghost' = [ghost EXCEPT ![index] =
              Started(GhostOf(consensusValidated, ghost, index), kind)]
        /\ threads' = [threads EXCEPT ![t] =
              [pc |-> pc, kind |-> kind, hash |-> hash, chash |-> chash,
               obj |-> Null, mine |-> Null, flag |-> FALSE,
               found |-> Len(GhostOf(consensusValidated, ghost, index).ops)]]
        /\ UNCHANGED <<ledgerCache, mLedgersByIndex,
                       mismatch_counter, lastOp>>

BuiltGet(t, hash, chash) == RecordGet(t, "built", hash, chash, "b_has_validated")

ValidatedGet(t, hash, chash) ==
    RecordGet(t, "validated", hash, chash, "v_has_built")

\* a step that only reads the entry and branches
Branch(t, from, cond, yes, no) ==
    /\ threads[t].pc = from
    /\ Goto(t, IF cond THEN yes ELSE no)
    /\ UNCHANGED <<ledgerCache, mLedgersByIndex, consensusValidated,
                   mismatch_counter, ghost, lastOp>>

\* line 436: entry->validated
BuiltHasValidated(t) ==
    Branch(t, "b_has_validated", Entry(t).validated # None,
           "b_has_built", "b_store_built")

\* line 436: !entry->built
BuiltHasBuilt(t) ==
    Branch(t, "b_has_built", Entry(t).built = None, "b_compare", "b_store_built")

\* line 438: entry->validated.value() != hash
BuiltCompare(t) ==
    Branch(t, "b_compare", BuiltDiffers(Entry(t), threads[t].hash),
           "b_call", "b_store_built")

\* a step that invokes handleMismatch with arguments read from the entry now
Invoke(t, from, call, to) ==
    LET index == SeqOf(threads[t].hash)
    IN  \E storedBuilt \in BOOLEAN, storedValid \in BOOLEAN :
        LET after == handleMismatch(Here, call, storedBuilt, storedValid)
        IN
        /\ threads[t].pc = from
        /\ after.counter <= MaxCalls
        /\ ledgerCache' = after.cache
        /\ mismatch_counter' = after.counter
        /\ ghost' = [ghost EXCEPT ![index].diagnosed = Append(@, call)]
        /\ Goto(t, to)
        /\ UNCHANGED <<mLedgersByIndex, consensusValidated, lastOp>>

\* lines 443-448
BuiltCall(t) ==
    Invoke(t, "b_call",
           Call(threads[t].hash, Entry(t).validated, threads[t].chash,
                Entry(t).validatedConsensusHash, Json),
           "b_store_built")

\* a step that writes one field of the entry
Write(t, from, entry, to) ==
    LET index == SeqOf(threads[t].hash)
    IN  /\ threads[t].pc = from
        /\ consensusValidated' = [consensusValidated EXCEPT ![index] = entry]
        /\ ghost' = [ghost EXCEPT ![index] = Written(@, entry)]
        /\ Goto(t, to)
        /\ UNCHANGED <<ledgerCache, mLedgersByIndex,
                       mismatch_counter, lastOp>>

\* line 457
BuiltStoreBuilt(t) ==
    Write(t, "b_store_built", [Entry(t) EXCEPT !.built = threads[t].hash],
          "b_store_chash")

\* line 458
BuiltStoreCHash(t) ==
    Write(t, "b_store_chash",
          [Entry(t) EXCEPT !.builtConsensusHash = threads[t].chash],
          "b_store_consensus")

\* line 459
BuiltStoreConsensus(t) ==
    Write(t, "b_store_consensus", [Entry(t) EXCEPT !.consensus = Json], "done")

\* line 474: entry->built
ValidatedHasBuilt(t) ==
    Branch(t, "v_has_built", Entry(t).built # None,
           "v_has_validated", "v_store_validated")

\* line 474: !entry->validated
ValidatedHasValidated(t) ==
    Branch(t, "v_has_validated", Entry(t).validated = None,
           "v_compare", "v_store_validated")

\* line 474: entry->built.value() != hash
ValidatedCompare(t) ==
    Branch(t, "v_compare", Entry(t).built # threads[t].hash,
           "v_call", "v_store_validated")

\* lines 480-485, entry->consensus holding a value
ValidatedCall(t) ==
    /\ threads[t].pc = "v_call"
    /\ Entry(t).consensus # None
    /\ Invoke(t, "v_call",
              Call(Entry(t).built, threads[t].hash, Entry(t).builtConsensusHash,
                   threads[t].chash, Entry(t).consensus),
              "v_store_validated")

\* line 485: entry->consensus.value() on an empty optional throws
\* std::bad_optional_access out of validatedLedger
ValidatedCallThrows(t) ==
    /\ threads[t].pc = "v_call"
    /\ Entry(t).consensus = None
    /\ Goto(t, "threw")
    /\ UNCHANGED <<ledgerCache, mLedgersByIndex, consensusValidated,
                   mismatch_counter, ghost, lastOp>>

\* line 488
ValidatedStoreValidated(t) ==
    Write(t, "v_store_validated", [Entry(t) EXCEPT !.validated = threads[t].hash],
          "v_store_chash")

\* line 489
ValidatedStoreCHash(t) ==
    Write(t, "v_store_chash",
          [Entry(t) EXCEPT !.validatedConsensusHash = threads[t].chash], "done")

\* the entries a single earlier record call leaves behind
PriorEntries(index) ==
    {NoEntry}
    \cup {BuiltStore(NewEntry, h, c) :
            h \in {x \in Hashes : SeqOf(x) = index}, c \in CHashes}
    \cup {ValidatedStore(NewEntry, h, c) :
            h \in {x \in Hashes : SeqOf(x) = index}, c \in CHashes \cup {None}}

PriorGhost(entry) ==
    IF ~entry.present THEN NewGhost
    ELSE Started(NewGhost, IF entry.built # None THEN "built" ELSE "validated")

InitConc ==
    /\ ledgerCache = [h \in Hashes |-> None]
    /\ mLedgersByIndex = [s \in Seqs |-> None]
    /\ consensusValidated \in [Seqs -> UNION {PriorEntries(s) : s \in Seqs}]
    /\ \A s \in Seqs : consensusValidated[s] \in PriorEntries(s)
    /\ mismatch_counter = 0
    /\ ghost = [s \in Seqs |-> PriorGhost(consensusValidated[s])]
    /\ lastOp = NoOp
    /\ threads = [t \in Threads |-> Idle]

NextConc ==
    \E t \in Threads :
        \/ \E h \in Hashes, c \in CHashes : BuiltGet(t, h, c)
        \/ BuiltHasValidated(t)
        \/ BuiltHasBuilt(t)
        \/ BuiltCompare(t)
        \/ BuiltCall(t)
        \/ BuiltStoreBuilt(t)
        \/ BuiltStoreCHash(t)
        \/ BuiltStoreConsensus(t)
        \/ \E h \in Hashes, c \in CHashes \cup {None} : ValidatedGet(t, h, c)
        \/ ValidatedHasBuilt(t)
        \/ ValidatedHasValidated(t)
        \/ ValidatedCompare(t)
        \/ ValidatedCall(t)
        \/ ValidatedCallThrows(t)
        \/ ValidatedStoreValidated(t)
        \/ ValidatedStoreCHash(t)

SpecConc == InitConc /\ [][NextConc]_vars

\* C4: builtLedger(seq, H1) and validatedLedger(seq, H2), H1 # H2, called
\* concurrently on a sequence with no tracker entry: whatever the
\* interleaving, once both calls are over the mismatch has been handed to
\* handleMismatch exactly once.
C4_ConcurrentDetectedOnce ==
    \A b, v \in Threads :
        (/\ threads[b].kind = "built" /\ threads[v].kind = "validated"
         /\ threads[b].pc \in {"done", "threw"}
         /\ threads[v].pc \in {"done", "threw"}
         /\ SeqOf(threads[b].hash) = SeqOf(threads[v].hash)
         /\ threads[b].hash # threads[v].hash
         /\ {threads[b].found, threads[v].found} = {0, 1}
         /\ \A t \in Threads \ {b, v} : threads[t].pc = "idle")
        => Len(ghost[SeqOf(threads[b].hash)].diagnosed) = 1

\* C17: in every interleaving of concurrent builtLedger and validatedLedger
\* calls on one sequence, every handleMismatch invocation is made with
\* built # valid, so that the assertion on its first line holds.
C17_AnalyzerArgsDiffer ==
    \A s \in Seqs : \A i \in 1..Len(ghost[s].diagnosed) :
        ghost[s].diagnosed[i].built # ghost[s].diagnosed[i].valid


\* =================================================================
\* insert, getLedgerByHash and getLedgerBySeq called concurrently.  The
\* cache calls are atomic one by one and mutex_ guards the index, so each
\* cache call, each load and each locked block is a step.  A caller that
\* is done keeps the object it returned (obj); mine is the object it
\* inserted or loaded.
\* =================================================================
Step(t, from, to, fields) ==
    /\ threads[t].pc = from
    /\ threads' = [threads EXCEPT ![t] = [fields EXCEPT !.pc = to]]

CacheOnly == <<mLedgersByIndex, consensusValidated, mismatch_counter, ghost, lastOp>>

\* lines 61-62: insert_or_assign
RaceInsert(t, ledger, validated) ==
    /\ Step(t, "idle", "i_index",
            [Idle EXCEPT !.kind = "insert", !.hash = ledger[1], !.obj = ledger,
                         !.mine = ledger, !.flag = validated])
    /\ ledgerCache' = InsertCache(ledgerCache, ledger)
    /\ UNCHANGED CacheOnly

\* lines 64-69
RaceInsertIndex(t) ==
    /\ Step(t, "i_index", "done", threads[t])
    /\ mLedgersByIndex' =
          InsertIndex(mLedgersByIndex, threads[t].hash, threads[t].flag)
    /\ UNCHANGED <<ledgerCache, consensusValidated, mismatch_counter, ghost, lastOp>>

\* line 117, entered from a caller
RaceByHash(t, hash) ==
    /\ Step(t, "idle", "h_fetch",
            [Idle EXCEPT !.kind = "getLedgerByHash", !.hash = hash])
    /\ UNCHANGED <<ledgerCache, CacheOnly>>

\* lines 117-124: fetch
RaceFetch(t) ==
    LET hit == fetch(ledgerCache, threads[t].hash)
    IN  /\ Step(t, "h_fetch", IF hit # Null THEN "done" ELSE "h_load",
                [threads[t] EXCEPT !.obj = hit])
        /\ UNCHANGED <<ledgerCache, CacheOnly>>

\* lines 126-129: loadByHash
RaceLoad(t, stored) ==
    LET loaded == loadByHash(ledgerCache, threads[t].hash, stored)
    IN  /\ Step(t, "h_load", IF loaded = Null THEN "done" ELSE "h_insert",
                [threads[t] EXCEPT !.obj = loaded, !.mine = loaded])
        /\ UNCHANGED <<ledgerCache, CacheOnly>>

\* lines 133-136 and line 104: retrieve_or_insert
RaceRetrieveOrInsert(t) ==
    /\ Step(t, "h_insert", IF threads[t].flag THEN "s_index" ELSE "done",
            [threads[t] EXCEPT !.obj = Canonical(ledgerCache, threads[t].obj)])
    /\ ledgerCache' = CacheLoaded(ledgerCache, threads[t].obj)
    /\ UNCHANGED CacheOnly

\* lines 86-95: the index read under mutex_
RaceBySeq(t, index) ==
    /\ Step(t, "idle",
            IF mLedgersByIndex[index] # None THEN "h_fetch" ELSE "s_load",
            [Idle EXCEPT !.kind = "getLedgerBySeq", !.found = index,
                         !.hash = mLedgersByIndex[index]])
    /\ UNCHANGED <<ledgerCache, CacheOnly>>

\* lines 97-103: loadByIndex
RaceLoadByIndex(t) ==
    \E loaded \in loadByIndexChoices(ledgerCache, threads[t].found) :
        /\ Step(t, "s_load", IF loaded = Null THEN "done" ELSE "h_insert",
                [threads[t] EXCEPT !.obj = loaded, !.mine = loaded,
                                   !.hash = loaded[1], !.flag = loaded # Null])
        /\ UNCHANGED <<ledgerCache, CacheOnly>>

\* lines 106-111: the index write under mutex_
RaceIndexLoaded(t) ==
    /\ Step(t, "s_index", "done",
            [threads[t] EXCEPT !.obj = LoadedResult(threads[t].obj, threads[t].found)])
    /\ mLedgersByIndex' = LoadedIndex(mLedgersByIndex, threads[t].obj)
    /\ UNCHANGED <<ledgerCache, consensusValidated, mismatch_counter, ghost, lastOp>>

InitRace ==
    /\ ledgerCache = [h \in Hashes |-> None]
    /\ mLedgersByIndex = [s \in Seqs |-> None]
    /\ consensusValidated = [s \in Seqs |-> NoEntry]
    /\ mismatch_counter = 0
    /\ ghost = [s \in Seqs |-> NewGhost]
    /\ lastOp = NoOp
    /\ threads = [t \in Threads |-> Idle]

NextRace ==
    \E t \in Threads :
        \/ \E h \in Hashes, v \in BOOLEAN :
             \E k \in (InUse(ledgerCache, h) \ {None}) \cup {Fresh(ledgerCache, h)} :
                RaceInsert(t, <<h, k>>, v)
        \/ RaceInsertIndex(t)
        \/ \E h \in Hashes : RaceByHash(t, h)
        \/ RaceFetch(t)
        \/ \E st \in BOOLEAN : RaceLoad(t, st)
        \/ RaceRetrieveOrInsert(t)
        \/ \E s \in Seqs : RaceBySeq(t, s)
        \/ RaceLoadByIndex(t)
        \/ RaceIndexLoaded(t)

SpecRace == InitRace /\ [][NextRace]_vars

\* the caller is done and had brought an object of this hash of its own
Brought(t, hash) ==
    /\ threads[t].pc = "done"
    /\ threads[t].hash = hash
    /\ threads[t].mine # Null

Fields == 0..MaxField

TxMetas == [null : {FALSE}, result : Fields, index : Fields, nodes : Fields]

NoMeta == [null |-> TRUE, result |-> 0, index |-> 0, nodes |-> 0]

\* a JLOG statement: its severity, its text, and for the lines that print
\* values the side and the fields printed
Line(level, text) == [level |-> level, text |-> text, side |-> "", shown |-> {}]

Values(side, shown) ==
    [level |-> "debug", text |-> "", side |-> side, shown |-> shown]

\* the " Built:" and " Valid:" lines that follow a message
BuiltAndValid(shown) == <<Values("Built", shown), Values("Valid", shown)>>

\* mutant: the result is compared with the index
ResultDiff_AgainstIndex(builtMetaData, validMetaData) ==
    validMetaData.result # builtMetaData.index

\* result_diff
ResultDiff(builtMetaData, validMetaData) ==
    validMetaData.result # builtMetaData.result

\* index_diff
IndexDiff(builtMetaData, validMetaData) ==
    validMetaData.index # builtMetaData.index

\* nodes_diff
NodesDiff(builtMetaData, validMetaData) ==
    validMetaData.nodes # builtMetaData.nodes

\* lines 180-281: both sides have metadata
ClassifyMetadata(builtMetaData, validMetaData) ==
    LET result_diff == ResultDiff(builtMetaData, validMetaData)
        index_diff == IndexDiff(builtMetaData, validMetaData)
        nodes_diff == NodesDiff(builtMetaData, validMetaData)
    IN  IF ~result_diff /\ ~index_diff /\ ~nodes_diff
        THEN <<Line("error", "No apparent mismatches detected!")>>
        ELSE IF ~nodes_diff
        THEN IF result_diff /\ index_diff
             THEN <<Line("debug", "Different result and index!")>>
                  \o BuiltAndValid({"result", "index"})
             ELSE IF result_diff
             THEN <<Line("debug", "Different result!")>>
                  \o BuiltAndValid({"result"})
             ELSE IF index_diff
             THEN <<Line("debug", "Different index!")>>
                  \o BuiltAndValid({"index"})
             ELSE <<>>
        ELSE IF result_diff /\ index_diff
             THEN <<Line("debug", "Different result, index and nodes!")>>
                  \o BuiltAndValid({"result", "index", "nodes"})
             ELSE IF result_diff
             THEN <<Line("debug", "Different result and nodes!")>>
                  \o BuiltAndValid({"result", "nodes"})
             ELSE IF index_diff
             THEN <<Line("debug", "Different index and nodes!")>>
                  \o BuiltAndValid({"index", "nodes"})
             ELSE <<Line("debug", "Different nodes!")>>
                  \o BuiltAndValid({"nodes"})

log_metadata_difference(builtMetaData, validMetaData) ==
    IF validMetaData # NoMeta /\ builtMetaData # NoMeta
    THEN ClassifyMetadata(builtMetaData, validMetaData)
    ELSE IF validMetaData # NoMeta
    THEN <<Line("error", "Metadata Difference (built has none)")>>
    ELSE <<Line("error", "Metadata Difference (valid has none)")>>

\* the call made on the metadata drawn at the start
LogMetadataDifference ==
    /\ lastOp.op = "none"
    /\ lastOp' = [lastOp EXCEPT
            !.op = "log_metadata_difference",
            !.log = log_metadata_difference(lastOp.args[1], lastOp.args[2])]
    /\ UNCHANGED <<ledgerCache, mLedgersByIndex, consensusValidated,
                   mismatch_counter, ghost, threads>>

\* the metadata of the transaction in the built and in the valid ledger; the
\* assertion of line 178 excludes that both are null
InitMeta ==
    /\ ledgerCache = [h \in Hashes |-> None]
    /\ mLedgersByIndex = [s \in Seqs |-> None]
    /\ consensusValidated = [s \in Seqs |-> NoEntry]
    /\ mismatch_counter = 0
    /\ ghost = [s \in Seqs |-> NewGhost]
    /\ threads = <<>>
    /\ \E b \in TxMetas \cup {NoMeta}, v \in TxMetas \cup {NoMeta} :
          /\ b # NoMeta \/ v # NoMeta
          /\ lastOp = [NoOp EXCEPT !.args = <<b, v>>]

NextMeta == LogMetadataDifference

SpecMeta == InitMeta /\ [][NextMeta]_vars

\* the messages of a journal output that are not lines of values
Messages(log) == SelectSeq(log, LAMBDA l : l.text # "")

\* the fields a message says to differ
NamedFields(text) ==
    CASE text = "Different result!" -> {"result"}
      [] text = "Different index!" -> {"index"}
      [] text = "Different nodes!" -> {"nodes"}
      [] text = "Different result and index!" -> {"result", "index"}
      [] text = "Different result and nodes!" -> {"result", "nodes"}
      [] text = "Different index and nodes!" -> {"index", "nodes"}
      [] text = "Different result, index and nodes!" -> {"result", "index", "nodes"}
      [] OTHER -> {}

\* the fields in which two TxMeta differ
DifferingFields(b, v) == {f \in {"result", "index", "nodes"} : b[f] # v[f]}

\* C16: for a transaction with metadata in both ledgers,
\* log_metadata_difference writes exactly one message: "No apparent
\* mismatches detected!" when result, index and node list are all equal,
\* otherwise the message that names exactly the fields that differ.
C16_OneMessageNamingTheDifference ==
    (/\ lastOp.op = "log_metadata_difference"
     /\ lastOp.args[1] # NoMeta /\ lastOp.args[2] # NoMeta)
        => LET b == lastOp.args[1]
               v == lastOp.args[2]
               msgs == Messages(lastOp.log)
           IN  /\ Len(msgs) = 1
               /\ (msgs[1].text = "No apparent mismatches detected!")
                     = (DifferingFields(b, v) = {})
               /\ NamedFields(msgs[1].text) = DifferingFields(b, v)
               /\ \A i \in 1..Len(lastOp.log) :
                     lastOp.log[i].text = "" =>
                        lastOp.log[i].shown = DifferingFields(b, v)

\* metadata that differ in the result code only
C16_Witness ==
    /\ lastOp.op = "log_metadata_difference"
    /\ lastOp.args[1] # NoMeta /\ lastOp.args[2] # NoMeta
    /\ DifferingFields(lastOp.args[1], lastOp.args[2]) = {"result"}
    /\ lastOp.log[1].text = "Different result!"
    /\ Len(lastOp.log) = 3

\* =================================================================
\* handleMismatch as an analyzer: what it writes to the journal for the two
\* ledgers it resolves.  A ledger's content is determined by its hash:
\* [parentHash, closeTime, txMap], txMap giving for each transaction key the
\* serialized item (0: the ledger has no such transaction).  The contents of
\* the ledgers are drawn at the start and kept in lastOp.args.ledgers.
\* =================================================================
Keys == 1..NumKeys

Slices == 1..NumSlices

Variants == 1..NumVariants

LedgerContents ==
    [parentHash : Variants, closeTime : Variants, txMap : [Keys -> {0} \cup Slices]]

DefaultContent ==
    [parentHash |-> 1, closeTime |-> 1, txMap |-> [k \in Keys |-> 0]]

\* the content of the ledger with the given hash
ContentOf(ledgers, hash) ==
    IF hash \in DOMAIN ledgers THEN ledgers[hash] ELSE DefaultContent

\* a journal statement of handleMismatch or log_one; tx is the transaction it
\* is about (0: none), counts the transaction counts it prints
Note(level, text, side, tx, counts) ==
    [level |-> level, text |-> text, side |-> side, shown |-> {},
     tx |-> tx, counts |-> counts]

\* the statements log_metadata_difference writes for transaction tx
OnTx(lines, tx) ==
    [i \in DOMAIN lines |->
        [level |-> lines[i].level, text |-> lines[i].text, side |-> lines[i].side,
         shown |-> lines[i].shown, tx |-> tx, counts |-> <<>>]]

\* ledger.txRead(tx).second of a closed ledger: the metadata serialized in
\* the item
TxMetaOf(slice) ==
    [null |-> FALSE,
     result |-> slice % (MaxField + 1),
     index |-> (slice \div (MaxField + 1)) % (MaxField + 1),
     nodes |-> (slice \div ((MaxField + 1) * (MaxField + 1))) % (MaxField + 1)]

\* log_one: msg names the ledger that lacks the transaction
log_one(tx, msg) ==
    <<Note("debug", "is missing this transaction", msg, tx, <<>>)>>

\* leaves: pointers to the items of a transaction map, sorted by key.  An
\* item pointer is <<key, slice, owner>>; two maps that share their nodes
\* hold the same item objects (owner 0), otherwise each map owns its items.
leaves(txMap, owner) ==
    SelectSeq([k \in Keys |-> <<k, txMap[k], owner>>], LAMBDA item : item[2] # 0)

\* mutant: no disagreement over the prior ledger is seen
ParentDiffers_Never(builtLedger, validLedger) == FALSE

\* builtLedger->info().parentHash != validLedger->info().parentHash
ParentDiffers(builtLedger, validLedger) ==
    builtLedger.parentHash # validLedger.parentHash

\* mutant: no disagreement over the close time is seen
CloseTimeDiffers_Never(builtLedger, validLedger) == FALSE

\* builtLedger->info().closeTime != validLedger->info().closeTime
CloseTimeDiffers(builtLedger, validLedger) ==
    builtLedger.closeTime # validLedger.closeTime

\* lines 347-357
ConsensusNotes(builtConsensusHash, validatedConsensusHash) ==
    IF builtConsensusHash # None /\ validatedConsensusHash # None
    THEN IF builtConsensusHash # validatedConsensusHash
         THEN <<Note("error", "MISMATCH on consensus transaction set", "", 0, <<>>)>>
         ELSE <<Note("error", "MISMATCH with same consensus transaction set", "", 0, <<>>)>>
    ELSE <<>>

\* lines 380-385: the vectors of item pointers are compared
CountNotes(builtTx, validTx) ==
    IF builtTx = validTx
    THEN <<Note("error", "MISMATCH with same transactions", "", 0, <<Len(builtTx)>>)>>
    ELSE <<Note("error", "MISMATCH with built and valid transactions", "", 0,
                <<Len(builtTx), Len(validTx)>>)>>

\* mutant: every transaction present in both ledgers is classified
SlicesDiffer_Always(b, v) == TRUE

\* (*b)->slice() != (*v)->slice()
SlicesDiffer(b, v) == b[2] # v[2]

\* lines 393-420: the merge over the two sorted vectors, from positions b, v
RECURSIVE MergeNotes(_, _, _, _)
MergeNotes(builtTx, validTx, b, v) ==
    IF b <= Len(builtTx) /\ v <= Len(validTx)
    THEN IF builtTx[b][1] < validTx[v][1]
         THEN log_one(builtTx[b][1], "valid") \o MergeNotes(builtTx, validTx, b + 1, v)
         ELSE IF builtTx[b][1] > validTx[v][1]
         THEN log_one(validTx[v][1], "built") \o MergeNotes(builtTx, validTx, b, v + 1)
         ELSE (IF SlicesDiffer(builtTx[b], validTx[v])
               THEN OnTx(log_metadata_difference(TxMetaOf(builtTx[b][2]),
                                                 TxMetaOf(validTx[v][2])),
                         builtTx[b][1])
               ELSE <<>>)
              \o MergeNotes(builtTx, validTx, b + 1, v + 1)
    ELSE IF b <= Len(builtTx)
    THEN log_one(builtTx[b][1], "valid") \o MergeNotes(builtTx, validTx, b + 1, v)
    ELSE IF v <= Len(validTx)
    THEN log_one(validTx[v][1], "built") \o MergeNotes(builtTx, validTx, b, v + 1)
    ELSE <<>>

\* lines 311-421: the journal output for the resolved ledgers (NoLedger: the
\* ledger could not be resolved)
NoLedger == [parentHash |-> 0, closeTime |-> 0, txMap |-> <<>>]

Analysis(builtLedger, validLedger, builtConsensusHash, validatedConsensusHash, shared) ==
    IF builtLedger = NoLedger \/ validLedger = NoLedger
    THEN <<Note("error", "MISMATCH cannot be analyzed", "", 0, <<>>)>>
    ELSE LET intro == <<Note("debug", "Mismatch on", "", 0, <<>>)>>
             builtTx == leaves(builtLedger.txMap, IF shared THEN 0 ELSE 1)
             validTx == leaves(validLedger.txMap, IF shared THEN 0 ELSE 2)
         IN  IF ParentDiffers(builtLedger, validLedger)
             THEN intro \o <<Note("error", "MISMATCH on prior ledger", "", 0, <<>>)>>
             ELSE IF CloseTimeDiffers(builtLedger, validLedger)
             THEN intro \o <<Note("error", "MISMATCH on close time", "", 0, <<>>)>>
             ELSE intro
                  \o ConsensusNotes(builtConsensusHash, validatedConsensusHash)
                  \o CountNotes(builtTx, validTx)
                  \o <<Note("error", "built", "", 0, <<>>),
                       Note("error", "valid", "", 0, <<>>)>>
                  \o MergeNotes(builtTx, validTx, 1, 1)

\* handleMismatch(built, valid, builtConsensusHash, validatedConsensusHash,
\* consensus) called on its own; shared tells whether the two transaction
\* maps share their item objects
HandleMismatch(built, valid, builtConsensusHash, validatedConsensusHash, storedBuilt, storedValid, shared) ==
    LET call == Call(built, valid, builtConsensusHash, validatedConsensusHash, Json)
        after == handleMismatch(Here, call, storedBuilt, storedValid)
        b == getLedgerByHash(ledgerCache, built, storedBuilt)
        v == getLedgerByHash(b.cache, valid, storedValid)
        ledgers == lastOp.args.ledgers
        builtLedger == IF b.ret = Null THEN NoLedger ELSE ContentOf(ledgers, built)
        validLedger == IF v.ret = Null THEN NoLedger ELSE ContentOf(ledgers, valid)
    IN  /\ lastOp.op = "none"
        \* item objects can be shared only by equal maps of resolved ledgers
        /\ shared => /\ builtLedger # NoLedger
                     /\ builtLedger.txMap = validLedger.txMap
        /\ ledgerCache' = after.cache
        /\ mismatch_counter' = after.counter
        /\ lastOp' = [Op("handleMismatch", None, None, SeqOf(built), FALSE,
                         FALSE, FALSE, Null)
                        EXCEPT !.args = [ledgers |-> ledgers, call |-> call,
                                         shared |-> shared,
                                         builtLedger |-> builtLedger,
                                         validLedger |-> validLedger],
                               !.log = Analysis(builtLedger, validLedger,
                                                builtConsensusHash,
                                                validatedConsensusHash, shared)]
        /\ UNCHANGED <<mLedgersByIndex, consensusValidated, ghost, threads>>

\* the contents of the two ledgers of the first sequence; the first has
\* parent hash 1 and close time 1 (the analysis only compares the two).
\* Earlier calls that could not resolve their ledgers have left the cache
\* empty and the counter at any value.
InitAnalyzer ==
    /\ ledgerCache = [h \in Hashes |-> None]
    /\ mLedgersByIndex = [s \in Seqs |-> None]
    /\ consensusValidated = [s \in Seqs |-> NoEntry]
    /\ mismatch_counter \in 0..(MaxCalls - 1)
    /\ ghost = [s \in Seqs |-> NewGhost]
    /\ threads = <<>>
    /\ \E c1 \in LedgerContents, c2 \in LedgerContents :
          /\ c1.parentHash = 1 /\ c1.closeTime = 1
          /\ lastOp = [NoOp EXCEPT !.args = [ledgers |-> <<c1, c2>>]]

NextAnalyzer ==
    \E built \in Hashes, valid \in Hashes :
        /\ built # valid
        /\ SeqOf(built) = SeqOf(valid)
        /\ \E bch \in CHashes \cup {None}, vch \in CHashes \cup {None},
              sb \in BOOLEAN, sv \in BOOLEAN, shared \in BOOLEAN :
                HandleMismatch(built, valid, bch, vch, sb, sv, shared)

SpecAnalyzer == InitAnalyzer /\ [][NextAnalyzer]_vars

\* ---------------------------------------------- claims about the analyzer
Analyzed == lastOp.op = "handleMismatch"

Resolved ==
    /\ Analyzed
    /\ lastOp.args.builtLedger # NoLedger
    /\ lastOp.args.validLedger # NoLedger

\* the analyzer got past the parent-hash and the close-time tests
TxStage ==
    /\ Resolved
    /\ lastOp.args.builtLedger.parentHash = lastOp.args.validLedger.parentHash
    /\ lastOp.args.builtLedger.closeTime = lastOp.args.validLedger.closeTime

CloseTimeTexts == {"MISMATCH on close time"}

ConsensusTexts ==
    {"MISMATCH on consensus transaction set",
     "MISMATCH with same consensus transaction set"}

CountTexts ==
    {"MISMATCH with same transactions", "MISMATCH with built and valid transactions"}

\* the positions of the journal statements with one of the texts
LinesWith(log, texts) == {i \in DOMAIN log : log[i].text \in texts}

\* the positions of the statements of the transaction-level stage
TxLevelLines(log) ==
    LinesWith(log, CountTexts \cup {"built", "valid"})
        \cup {i \in DOMAIN log : log[i].tx # 0}

KeysOf(txMap) == {k \in Keys : txMap[k] # 0}

\* C12: every invocation of handleMismatch increments the mismatch counter
\* exactly once, also when a ledger cannot be resolved; in that case the only
\* statement written is "MISMATCH cannot be analyzed" (no parent-hash,
\* close-time, consensus-set or transaction-level statement), and nothing is
\* thrown to the caller.
C12_CountedOnceAndUnresolvedStops ==
    [][lastOp'.op = "handleMismatch" =>
        /\ mismatch_counter' = mismatch_counter + 1
        /\ ~lastOp'.threw
        /\ (lastOp'.args.builtLedger = NoLedger \/ lastOp'.args.validLedger = NoLedger)
              => /\ LinesWith(lastOp'.log, {"MISMATCH cannot be analyzed"}) = {1}
                 /\ Len(lastOp'.log) = 1]_vars

C12_Witness ==
    /\ Analyzed
    /\ mismatch_counter = MaxCalls
    /\ lastOp.args.builtLedger # NoLedger
    /\ lastOp.args.validLedger = NoLedger
    /\ lastOp.log[1].text = "MISMATCH cannot be analyzed"

\* C13: for two resolved ledgers of one sequence whose parent hashes differ,
\* the analyzer writes "MISMATCH on prior ledger" once and nothing of the
\* later stages: no close-time statement, no consensus-set statement, no
\* transaction-level statement.
C13_PriorLedgerStops ==
    (Resolved /\ lastOp.args.builtLedger.parentHash # lastOp.args.validLedger.parentHash)
        => /\ Cardinality(LinesWith(lastOp.log, {"MISMATCH on prior ledger"})) = 1
           /\ LinesWith(lastOp.log, CloseTimeTexts \cup ConsensusTexts) = {}
           /\ TxLevelLines(lastOp.log) = {}

C13_Witness ==
    /\ Resolved
    /\ lastOp.args.builtLedger.parentHash # lastOp.args.validLedger.parentHash
    /\ lastOp.args.builtLedger.closeTime # lastOp.args.validLedger.closeTime
    /\ lastOp.args.builtLedger.txMap # lastOp.args.validLedger.txMap
    /\ lastOp.args.call.builtConsensusHash # None
    /\ lastOp.args.call.validatedConsensusHash # None
    /\ LinesWith(lastOp.log, {"MISMATCH on prior ledger"}) # {}

\* C14: for two resolved ledgers with equal parent hashes and different close
\* times, the analyzer writes "MISMATCH on close time" once and no
\* consensus-set or transaction-level statement; the close-time statement is
\* written only for ledgers whose parent hashes are equal.
C14_CloseTimeStops ==
    /\ (/\ Resolved
        /\ lastOp.args.builtLedger.parentHash = lastOp.args.validLedger.parentHash
        /\ lastOp.args.builtLedger.closeTime # lastOp.args.validLedger.closeTime)
          => /\ Cardinality(LinesWith(lastOp.log, CloseTimeTexts)) = 1
             /\ LinesWith(lastOp.log, ConsensusTexts) = {}
             /\ TxLevelLines(lastOp.log) = {}
    /\ (Analyzed /\ LinesWith(lastOp.log, CloseTimeTexts) # {})
          => /\ Resolved
             /\ lastOp.args.builtLedger.parentHash = lastOp.args.validLedger.parentHash

C14_Witness ==
    /\ Resolved
    /\ lastOp.args.builtLedger.parentHash = lastOp.args.validLedger.parentHash
    /\ lastOp.args.builtLedger.closeTime # lastOp.args.validLedger.closeTime
    /\ lastOp.args.builtLedger.txMap # lastOp.args.validLedger.txMap
    /\ lastOp.args.call.builtConsensusHash # None
    /\ lastOp.args.call.validatedConsensusHash # None
    /\ LinesWith(lastOp.log, CloseTimeTexts) # {}

\* the statements of the journal about transaction tx, in order
AboutTx(log, tx) == SelectSeq(log, LAMBDA l : l.tx = tx)

\* C15: for two resolved ledgers with equal parent hash and close time, a
\* key only in the built ledger gets exactly one statement, "valid is
\* missing this transaction"; a key only in the valid ledger exactly one,
\* "built is missing this transaction"; a key in both with different bytes
\* gets exactly the statements of log_metadata_difference; a key in both with
\* identical bytes, or in neither, gets none.
C15_MergeJoin ==
    TxStage =>
        \A k \in Keys :
            LET b == lastOp.args.builtLedger.txMap[k]
                v == lastOp.args.validLedger.txMap[k]
                about == AboutTx(lastOp.log, k)
            IN  /\ (b # 0 /\ v = 0) => about = log_one(k, "valid")
                /\ (b = 0 /\ v # 0) => about = log_one(k, "built")
                /\ (b # 0 /\ v # 0 /\ b # v)
                      => /\ about # <<>>
                         /\ about = OnTx(log_metadata_difference(TxMetaOf(b), TxMetaOf(v)), k)
                         /\ \A i \in DOMAIN about :
                                about[i].text # "is missing this transaction"
                /\ b = v => about = <<>>

\* {(k1,m1),(k2,m2)} against {(k1,m1),(k3,m3)}
C15_Witness ==
    /\ TxStage
    /\ lastOp.args.builtLedger.txMap = <<1, 2, 0>> \o [i \in 1..(NumKeys - 3) |-> 0]
    /\ lastOp.args.validLedger.txMap = <<1, 0, 1>> \o [i \in 1..(NumKeys - 3) |-> 0]
    /\ AboutTx(lastOp.log, 1) = <<>>
    /\ AboutTx(lastOp.log, 2) = log_one(2, "valid")
    /\ AboutTx(lastOp.log, 3) = log_one(3, "built")

\* C18: whenever the transaction-level stage is reached, the transaction
\* counts are written exactly once, and the statement says "same"
\* exactly when the two ledgers have the same set of transaction keys,
\* whatever the metadata of the transactions.
C18_SameIffSameKeys ==
    TxStage =>
        LET counts == LinesWith(lastOp.log, CountTexts)
        IN  /\ Cardinality(counts) = 1
            /\ \A i \in counts :
                  (lastOp.log[i].text = "MISMATCH with same transactions")
                      <=> (KeysOf(lastOp.args.builtLedger.txMap)
                              = KeysOf(lastOp.args.validLedger.txMap))

\* =================================================================
\* Message::Message (src/ripple/overlay/impl/Message.cpp): the framing of
\* a protocol message.  A buffer is [size, header]: its length in bytes
\* and its first headerBytes bytes; the payload bytes are not modelled.
\* =================================================================
headerBytes == 6

\* protocol::MessageType values of the types that may be compressed
mtMANIFESTS == 2
mtENDPOINTS == 15
mtTRANSACTION == 30
mtGET_LEDGER == 31
mtLEDGER_DATA == 32
mtGET_OBJECTS == 42
mtVALIDATORLIST == 54

\* ripple::compression::Algorithm::LZ4
LZ4 == 1

\* the payload size above which compression is tried
MinCompressible == 70

RECURSIVE BitAnd(_, _)
BitAnd(a, b) ==
    IF a = 0 \/ b = 0 THEN 0
    ELSE (IF a % 2 = 1 /\ b % 2 = 1 THEN 1 ELSE 0) + 2 * BitAnd(a \div 2, b \div 2)

RECURSIVE BitOr(_, _)
BitOr(a, b) ==
    IF a = 0 THEN b
    ELSE IF b = 0 THEN a
    ELSE (IF a % 2 = 1 \/ b % 2 = 1 THEN 1 ELSE 0) + 2 * BitOr(a \div 2, b \div 2)

\* static_cast<std::uint8_t>
U8(x) == x % 256

\* uint8_t compression
CompressionBits(compressed, compr_algorithm) ==
    U8(BitAnd(IF compressed THEN 240 ELSE 0, BitOr(128, compr_algorithm * 16)))

\* the six bytes set_header writes
set_header(messageBytes, type, compressed, compr_algorithm) ==
    LET compression == CompressionBits(compressed, compr_algorithm)
    IN  << U8(BitAnd(BitOr(messageBytes \div 2^24, compression), 255)),
           U8(BitAnd(messageBytes \div 2^16, 255)),
           U8(BitAnd(messageBytes \div 2^8, 255)),
           U8(BitAnd(messageBytes, 255)),
           U8(BitAnd(type \div 2^8, 255)),
           U8(BitAnd(type, 255)) >>

CompressibleTypes ==
    {mtMANIFESTS, mtENDPOINTS, mtTRANSACTION, mtGET_LEDGER, mtLEDGER_DATA,
     mtGET_OBJECTS, mtVALIDATORLIST}

\* mutant: a payload of exactly the threshold size is compressed
Compressible_AtThreshold(messageBytes, type, compression_enabled) ==
    /\ compression_enabled
    /\ type \in CompressibleTypes
    /\ messageBytes >= MinCompressible

\* bool compressible
Compressible(messageBytes, type, compression_enabled) ==
    /\ compression_enabled
    /\ type \in CompressibleTypes
    /\ messageBytes > MinCompressible

\* ratio > 0.0, ratio being 1.0 - (double)compressedSize / (double)messageBytes:
\* both sizes are below 2^53 and convert exactly, and a quotient of two such
\* sizes rounds to 1.0 or more exactly when compressedSize >= messageBytes
RatioPositive(compressedSize, messageBytes) == compressedSize < messageBytes

EmptyBuffer == [size |-> 0, header |-> <<>>]

\* mBuffer and mBufferCompressed after the constructor; compressedSize is what
\* compression::compress returns when it is called
Message(messageBytes, type, compression_enabled, compressedSize) ==
    [mBuffer |->
        [size |-> headerBytes + messageBytes,
         header |-> set_header(messageBytes, type, FALSE, LZ4)],
     mBufferCompressed |->
        IF Compressible(messageBytes, type, compression_enabled)
        THEN IF RatioPositive(compressedSize, messageBytes)
             THEN [size |-> headerBytes + compressedSize,
                   header |-> set_header(compressedSize, type, TRUE, LZ4)]
             ELSE EmptyBuffer
        ELSE EmptyBuffer]

\* payload sizes: around the compression threshold and around powers of two
Lengths ==
    {1, MinCompressible - 1, MinCompressible, MinCompressible + 1}
    \cup {2^k + d : k \in {8, 16, 24} \cup (27..MaxLenBits), d \in {0 - 1, 0, 1}}

\* the sizes compress may return for a payload
CompressedSizes(messageBytes) ==
    {c \in {1, messageBytes - 1, messageBytes, messageBytes + 1} : c >= 1}

\* the constructor run on the arguments drawn at the start
Construct ==
    /\ lastOp.op = "none"
    /\ lastOp' = [lastOp EXCEPT
            !.op = "Message",
            !.log = Message(lastOp.args.messageBytes, lastOp.args.type,
                            lastOp.args.compression_enabled,
                            lastOp.args.compressedSize)]
    /\ UNCHANGED <<ledgerCache, mLedgersByIndex, consensusValidated,
                   mismatch_counter, ghost, threads>>

\* a protobuf message of non-zero size (assert at line 39), its type, the
\* compression setting, and what compress would return
InitMessage ==
    /\ ledgerCache = [h \in Hashes |-> None]
    /\ mLedgersByIndex = [s \in Seqs |-> None]
    /\ consensusValidated = [s \in Seqs |-> NoEntry]
    /\ mismatch_counter = 0
    /\ ghost = [s \in Seqs |-> NewGhost]
    /\ threads = <<>>
    /\ \E m \in Lengths, t \in 1..MaxType, e \in BOOLEAN :
         \E c \in CompressedSizes(m) :
            lastOp = [NoOp EXCEPT !.args =
                        [messageBytes |-> m, type |-> t,
                         compression_enabled |-> e, compressedSize |-> c]]

NextMessage == Construct

SpecMessage == InitMessage /\ [][NextMessage]_vars

\* reading a header back: bits 31..28 and bits 27..0 of the big-endian
\* 32-bit field in bytes 0..3, and the big-endian 16-bit field in bytes 4..5
HeaderFlags(header) == header[1] \div 16

HeaderLength(header) ==
    (header[1] % 16) * 2^24 + header[2] * 2^16 + header[3] * 2^8 + header[4]

HeaderType(header) == header[5] * 2^8 + header[6]

\* C19: for every payload length and message type the constructor accepts,
\* the header of the uncompressed buffer has the payload length in bits
\* 27..0, zero in bits 31..28 and the type in bytes 4..5, and the header of a
\* compressed buffer has the compressed length in bits 27..0, bit 31 set with
\* the algorithm in bits 30..28, and the type in bytes 4..5.
C19_HeaderReadsBack ==
    lastOp.op = "Message" =>
        LET a == lastOp.args
            u == lastOp.log.mBuffer
            c == lastOp.log.mBufferCompressed
        IN  /\ HeaderLength(u.header) = a.messageBytes
            /\ HeaderFlags(u.header) = 0
            /\ HeaderType(u.header) = a.type
            /\ c # EmptyBuffer =>
                 /\ HeaderLength(c.header) = a.compressedSize
                 /\ HeaderFlags(c.header) = 8 + LZ4
                 /\ HeaderType(c.header) = a.type

\* the three conditions under which a compressed form may be kept
MayKeepCompressed(a) ==
    /\ a.type \in CompressibleTypes
    /\ a.messageBytes > 70
    /\ a.compressedSize < a.messageBytes

\* C20: a compressed buffer exists only when the type is in the allow-list,
\* the payload is longer than 70 bytes and the compressed size is smaller
\* than the payload size; otherwise mBufferCompressed is empty; the
\* uncompressed buffer, header and payload, is always produced.
C20_CompressedOnlyWhenWorthIt ==
    lastOp.op = "Message" =>
        LET a == lastOp.args
            u == lastOp.log.mBuffer
            c == lastOp.log.mBufferCompressed
        IN  /\ c # EmptyBuffer => MayKeepCompressed(a)
            /\ ~MayKeepCompressed(a) => c.size = 0 /\ c.header = <<>>
            /\ c # EmptyBuffer => c.size = headerBytes + a.compressedSize
            /\ u.size = headerBytes + a.messageBytes
            /\ Len(u.header) = headerBytes

\* a payload of 71 bytes of an allowed type that compress made smaller
C20_Witness ==
    /\ lastOp.op = "Message"
    /\ lastOp.args.messageBytes = 71
    /\ lastOp.args.compressedSize = 70
    /\ lastOp.log.mBufferCompressed.size = headerBytes + 70
    /\ lastOp.log.mBuffer.size = headerBytes + 71

\* =================================================================
\* Claims about the consensus tracker (SpecTracker)
\* =================================================================

\* the step is a record call of kind `kind` that found entry `index` with
\* exactly one earlier record call, of kind `before`, since its creation
SecondCall(index, before, kind) ==
    /\ consensusValidated[index].present
    /\ ghost[index].ops = <<before>>
    /\ ghost'[index].ops = <<before, kind>>

\* C1: on an entry created by builtLedger(seq, H1), validatedLedger(seq, H2)
\* with H1 # H2 makes exactly one handleMismatch invocation, with built = H1
\* and valid = H2, and the mismatch counter grows by exactly 1.
C1_BuiltThenValidatedDiffer ==
    [][\A s \in Seqs :
        (/\ SecondCall(s, "built", "validated")
         /\ consensusValidated[s].built # consensusValidated'[s].validated)
        => /\ ghost[s].diagnosed = <<>>
           /\ Len(ghost'[s].diagnosed) = 1
           /\ ghost'[s].diagnosed[1].built = consensusValidated[s].built
           /\ ghost'[s].diagnosed[1].valid = consensusValidated'[s].validated
           /\ mismatch_counter' = mismatch_counter + 1
           /\ \A t \in Seqs \ {s} : ghost'[t] = ghost[t]]_vars

C1_Witness ==
    \E s \in Seqs :
        /\ ghost[s].ops = <<"built", "validated">>
        /\ consensusValidated[s].built # consensusValidated[s].validated
        /\ Len(ghost[s].diagnosed) = 1
        /\ mismatch_counter > 0

\* C2: on an entry created by builtLedger(seq, H), validatedLedger(seq, H)
\* with the same hash makes no handleMismatch invocation and leaves the
\* mismatch counter unchanged.
C2_BuiltThenValidatedSame ==
    [][\A s \in Seqs :
        (/\ SecondCall(s, "built", "validated")
         /\ consensusValidated[s].built = consensusValidated'[s].validated)
        => /\ ghost'[s].diagnosed = <<>>
           /\ mismatch_counter' = mismatch_counter
           /\ \A t \in Seqs : ghost'[t].diagnosed = ghost[t].diagnosed]_vars

C2_Witness ==
    \E s \in Seqs :
        /\ ghost[s].ops = <<"built", "validated">>
        /\ consensusValidated[s].built = consensusValidated[s].validated
        /\ consensusValidated[s].built # None
        /\ ghost[s].diagnosed = <<>>

\* the number of invocations made for the pair p during the entry's life
Diagnoses(g, p) ==
    Cardinality({i \in 1..Len(g.diagnosed) :
                    <<g.diagnosed[i].built, g.diagnosed[i].valid>> = p})

\* C3 as stated: over any series of record calls on one sequence, every
\* fully populated unequal <<built, validated>> pair the entry came to hold
\* was diagnosed exactly once, and no equal pair was diagnosed.
C3_EveryHeldPairDiagnosedOnce ==
    \A s \in Seqs :
        consensusValidated[s].present =>
            \A p \in ghost[s].held :
                Diagnoses(ghost[s], p) = IF p[1] # p[2] THEN 1 ELSE 0

\* C3 amended: the diagnosis fires only at the call that first makes the
\* entry fully populated: exactly once, for that first pair, when the pair
\* is unequal, and not at all when it is equal or while a side is missing;
\* pairs the entry comes to hold later by overwriting a side are never
\* diagnosed.
C3_FirstFullPairDiagnosedOnce ==
    \A s \in Seqs :
        consensusValidated[s].present =>
            LET g == ghost[s]
            IN  /\ (g.first = Null) = ~IsFull(consensusValidated[s])
                /\ IF g.first # Null /\ g.first[1] # g.first[2]
                   THEN /\ Len(g.diagnosed) = 1
                        /\ <<g.diagnosed[1].built, g.diagnosed[1].valid>> = g.first
                   ELSE g.diagnosed = <<>>

\* an entry whose side was overwritten after its first pair was diagnosed
C3_Witness ==
    \E s \in Seqs :
        /\ consensusValidated[s].present
        /\ Cardinality(ghost[s].held) > 1
        /\ Len(ghost[s].diagnosed) = 1

\* =================================================================
\* Claims about the ledger cache and the index (Spec)
\* =================================================================

\* C11: whatever insert, getLedgerByHash, getLedgerBySeq and fixIndex calls
\* were made, no cache entry is keyed by the zero hash and no index entry
\* maps a sequence to the zero hash.
C11_NoZeroHash ==
    /\ ZeroHash \notin {h \in DOMAIN ledgerCache : ledgerCache[h] # None}
    /\ \A s \in Seqs : mLedgersByIndex[s] # ZeroHash

\* C5: getLedgerBySeq(L.seq) called after insert(L, true) of an immutable,
\* non-zero-hash ledger L returns a ledger whose hash is L's hash.
C5_InsertValidatedThenBySeq ==
    (lastOp.op = "getLedgerBySeq" /\ lastOp.follows = "insert")
        => /\ lastOp.retO # Null
           /\ lastOp.retO[1] = lastOp.prevO[1]

C5_Witness ==
    /\ lastOp.op = "getLedgerBySeq"
    /\ lastOp.follows = "insert"
    /\ lastOp.retO = lastOp.prevO
    /\ lastOp.retO # Null

\* C6: when getLedgerByHash(h) returns a ledger and is called again right
\* away, the second call returns the same Ledger object, whether the first
\* call found it in the cache or loaded it.
C6_ByHashTwiceSameObject ==
    (/\ lastOp.op = "getLedgerByHash"
     /\ lastOp.follows = "getLedgerByHash"
     /\ lastOp.prevO # Null)
        => lastOp.retO = lastOp.prevO

\* the first call loaded the ledger, the second found it in the cache
C6_Witness ==
    /\ lastOp.op = "getLedgerByHash"
    /\ lastOp.follows = "getLedgerByHash"
    /\ lastOp.retO # Null
    /\ lastOp.retO = lastOp.prevO
    /\ lastOp.retB
    /\ ~lastOp.flag

\* C8: insert(ledger, validated) returns true exactly when the cache held an
\* entry for the ledger's hash before the call; afterwards the cache maps
\* that hash to the inserted object and every other cache entry is as before;
\* the index changes only when validated is true, and then only in that
\* index[ledger.seq] = ledger.hash.
C8_InsertEffect ==
    [][(lastOp'.op = "insert" /\ ~lastOp'.threw) =>
        LET h == lastOp'.hash
        IN  /\ lastOp'.retB = (ledgerCache[h] # None)
            /\ ledgerCache'[h] = lastOp'.copy
            /\ \A x \in Hashes \ {h} : ledgerCache'[x] = ledgerCache[x]
            /\ ~lastOp'.flag => mLedgersByIndex' = mLedgersByIndex
            /\ lastOp'.flag =>
                 /\ mLedgersByIndex'[SeqOf(h)] = h
                 /\ \A s \in Seqs \ {SeqOf(h)} :
                       mLedgersByIndex'[s] = mLedgersByIndex[s]]_vars

\* a validated insert that replaced the cached object and overwrote the index
C8_Witness ==
    /\ lastOp.op = "insert"
    /\ ~lastOp.threw
    /\ lastOp.flag
    /\ lastOp.retB
    /\ ledgerCache[lastOp.hash] = lastOp.copy
    /\ mLedgersByIndex[lastOp.seq] = lastOp.hash

\* C9: clearLedgerCachePrior(seq0) removes every cached ledger whose sequence
\* is below seq0 and keeps every cached ledger whose sequence is seq0 or more.
C9_EvictBefore ==
    [][lastOp'.op = "clearLedgerCachePrior" =>
        \A h \in Hashes :
            ledgerCache'[h] = IF SeqOf(h) < lastOp'.seq THEN None
                              ELSE ledgerCache[h]]_vars

\* a call that erased an entry and kept another
C9_Witness ==
    /\ lastOp.op = "clearLedgerCachePrior"
    /\ lastOp.flag
    /\ \E h \in Hashes : ledgerCache[h] # None /\ SeqOf(h) >= lastOp.seq
    /\ \E h \in Hashes : ledgerCache[h] = None /\ SeqOf(h) < lastOp.seq

\* C10: fixIndex(seq, hash) returns true and leaves the index as it is when
\* it has no entry for seq or the entry equals hash; it returns false and
\* overwrites the entry when the entry differs; it never creates an entry
\* and never touches another sequence's entry.
C10_FixIndex ==
    [][lastOp'.op = "fixIndex" =>
        LET s == lastOp'.seq
            h == lastOp'.hash
            old == mLedgersByIndex[s]
        IN  /\ (old = None \/ old = h) =>
                 lastOp'.retB /\ mLedgersByIndex' = mLedgersByIndex
            /\ (old # None /\ old # h) =>
                 ~lastOp'.retB /\ mLedgersByIndex'[s] = h
            /\ \A t \in Seqs :
                 /\ (mLedgersByIndex'[t] = None) = (mLedgersByIndex[t] = None)
                 /\ t # s => mLedgersByIndex'[t] = mLedgersByIndex[t]]_vars

\* a repair that overwrote a differing entry while another sequence has none
C10_Witness ==
    /\ lastOp.op = "fixIndex"
    /\ ~lastOp.retB
    /\ mLedgersByIndex[lastOp.seq] = lastOp.hash
    /\ \E t \in Seqs : mLedgersByIndex[t] = None

\* C21: after any sequence of insert, fixIndex, getLedgerByHash,
\* getLedgerBySeq and clearLedgerCachePrior, a ledger returned by
\* getLedgerBySeq(s) has sequence s, whether it was found through the
\* mLedgersByIndex entry for s or loaded by loadByIndex.
C21_BySeqReturnsThatSeq ==
    (lastOp.op = "getLedgerBySeq" /\ lastOp.retO # Null)
        => SeqOf(lastOp.retO[1]) = lastOp.seq

\* C22: no operation removes a key from mLedgersByIndex: over every step the
\* sequences that have an entry keep one; clearLedgerCachePrior leaves
\* mLedgersByIndex as it was, so an entry can outlive the cached ledger it
\* names.
C22_IndexOnlyGrows ==
    [][/\ \A s \in Seqs : mLedgersByIndex[s] # None => mLedgersByIndex'[s] # None
       /\ lastOp'.op = "clearLedgerCachePrior" => mLedgersByIndex' = mLedgersByIndex]_vars

\* after an eviction that erased a ledger, the index still names one below
\* the bound that the cache no longer holds
C22_Witness ==
    /\ lastOp.op = "clearLedgerCachePrior"
    /\ lastOp.flag
    /\ \E s \in Seqs :
          /\ s < lastOp.seq
          /\ mLedgersByIndex[s] # None
          /\ SeqOf(mLedgersByIndex[s]) = s
          /\ ledgerCache[mLedgersByIndex[s]] = None

====
